---- MODULE Spec2Model ----
(***************************************************************************)
(* Model of cmd/prometheus-hetzner-sd/main.go: the Action of the `server`  *)
(* command (flag handling, optional config file merge, validation of the   *)
(* output file and of the credentials, dispatch into action.Server) and    *)
(* the exit status of main.  readConfig and action.Server live in other    *)
(* files of the repository; they are modelled from the design document.    *)
(***************************************************************************)
EXTENDS Integers, Sequences, FiniteSets, TLC

VARIABLES
    c,            \* *cli.Context: which flags are set and their string values
    configFile,   \* the file hetzner.config points at
    cfg,          \* *config.Config (the Target part)
    pc,           \* position in the Action / in action.Server / in main
    err,          \* the error the Action returns ("nil" when none)
    serverCalls,  \* number of invocations of action.Server
    lastRefresh,  \* outcome of the last refresh of action.Server
    exitCode      \* process exit status, -1 while running

vars == <<c, configFile, cfg, pc, err, serverCalls, lastRefresh, exitCode>>

\* ---------------------------------------------------------------- bounds
\* longest credential list a config file carries
MaxFileCreds == 2

\* ------------------------------------------------------------- constants
ErrMissingOutputFile == "Missing path for output.file"

ErrMissingHetznerUsername == "Missing required hetzner.username"

ErrMissingHetznerPassword == "Missing required hetzner.password"

ErrMissingAnyCredentials == "Missing any credentials"

\* any error readConfig returns (unreadable or unparsable file)
ErrReadConfig == "Failed to read config"

DefaultOutputFile == "/etc/prometheus/hetzner.json"

\* ---------------------------------------------------------------- inputs
\* values of the output.file flag: explicitly empty, or the default
OutputFiles == {"", DefaultOutputFile}

Usernames == {"", "robot"}

Passwords == {"", "secret"}

\* credentials a config file may list
FileCredentials ==
    { [Project |-> "alpha", Username |-> "ua", Password |-> "pa"],
      [Project |-> "beta", Username |-> "ub", Password |-> "pb"] }

SeqsUpTo(S, n) == UNION { [1..k -> S] : k \in 0..n }

\* a config file: readable or not, optionally setting target.file, and
\* listing credentials
ConfigFiles ==
    [ readable : BOOLEAN,
      setsFile : BOOLEAN,
      file : {"", "/tmp/sd.json"},
      credentials : SeqsUpTo(FileCredentials, MaxFileCreds) ]

\* a string flag: not set (value is the default ""), or set to a value
FlagStates(values) ==
    { [isSet |-> FALSE, value |-> ""] } \cup
    { [isSet |-> TRUE, value |-> v] : v \in values }

\* c.IsSet(name)
IsSet(name) == c[name].isSet

\* c.String(name)
String(name) == c[name].value

\* config.Load() followed by flag parsing: output.file is bound to
\* cfg.Target.File, no credential is present yet
Load(outputFile) ==
    [ Target |-> [ File |-> outputFile, Credentials |-> <<>> ] ]

\* readConfig(path, cfg): fails on an unreadable file, otherwise merges the
\* file's fields into cfg (fields the file does not mention keep their value)
readConfig(file, conf) ==
    IF ~file.readable
    THEN [ err |-> ErrReadConfig, cfg |-> conf ]
    ELSE [ err |-> "nil",
           cfg |-> [ Target |->
                      [ File |-> IF file.setsFile THEN file.file
                                 ELSE conf.Target.File,
                        Credentials |-> conf.Target.Credentials
                                        \o file.credentials ] ] ]

\* config.Credential{Project: "default", Username: ..., Password: ...}
FlagCredential ==
    [ Project |-> "default",
      Username |-> String("hetzner.username"),
      Password |-> String("hetzner.password") ]

\* the command lines the model runs the `server` command with
Contexts ==
    { ("hetzner.config" :> fc) @@ ("hetzner.username" :> fu)
        @@ ("hetzner.password" :> fp) :
        fc \in FlagStates({"/etc/hetzner.yml"}),
        fu \in FlagStates(Usernames),
        fp \in FlagStates(Passwords) }

Init ==
    /\ c \in Contexts
    /\ configFile \in ConfigFiles
    /\ cfg \in { Load(f) : f \in OutputFiles }
    /\ pc = "readConfig"
    /\ err = "nil"
    /\ serverCalls = 0
    /\ lastRefresh = "none"
    /\ exitCode = -1

\* if c.IsSet("hetzner.config") { if err := readConfig(...); err != nil { return err } }
ReadConfig ==
    /\ pc = "readConfig"
    /\ IF IsSet("hetzner.config")
       THEN LET r == readConfig(configFile, cfg) IN
            IF r.err # "nil"
            THEN /\ err' = r.err
                 /\ pc' = "return"
                 /\ cfg' = r.cfg
            ELSE /\ cfg' = r.cfg
                 /\ pc' = "checkFile"
                 /\ UNCHANGED err
       ELSE /\ pc' = "checkFile"
            /\ UNCHANGED <<cfg, err>>
    /\ UNCHANGED <<c, configFile, serverCalls, lastRefresh, exitCode>>

\* plausible slip: the empty output file is logged but the action goes on
CheckOutputFileNoReturn ==
    /\ pc = "checkFile"
    /\ pc' = "credentials"
    /\ UNCHANGED <<c, configFile, cfg, err, serverCalls, lastRefresh, exitCode>>

\* if cfg.Target.File == "" { return ErrMissingOutputFile }
CheckOutputFile ==
    /\ pc = "checkFile"
    /\ IF cfg.Target.File = ""
       THEN /\ err' = ErrMissingOutputFile
            /\ pc' = "return"
       ELSE /\ pc' = "credentials"
            /\ UNCHANGED err
    /\ UNCHANGED <<c, configFile, cfg, serverCalls, lastRefresh, exitCode>>

\* plausible slip: the password is validated before the username
AppendCredentialsPasswordFirst ==
    /\ pc = "credentials"
    /\ IF IsSet("hetzner.username") /\ IsSet("hetzner.password")
       THEN LET credentials == FlagCredential IN
            /\ cfg' = [cfg EXCEPT !.Target.Credentials =
                                      Append(@, credentials)]
            /\ IF credentials.Password = ""
               THEN /\ err' = ErrMissingHetznerPassword
                    /\ pc' = "return"
               ELSE IF credentials.Username = ""
               THEN /\ err' = ErrMissingHetznerUsername
                    /\ pc' = "return"
               ELSE /\ pc' = "checkAny"
                    /\ UNCHANGED err
       ELSE /\ pc' = "checkAny"
            /\ UNCHANGED <<cfg, err>>
    /\ UNCHANGED <<c, configFile, serverCalls, lastRefresh, exitCode>>

\* plausible slip: the flag credential is put in front of the list
AppendCredentialsPrepend ==
    /\ pc = "credentials"
    /\ IF IsSet("hetzner.username") /\ IsSet("hetzner.password")
       THEN LET credentials == FlagCredential IN
            /\ cfg' = [cfg EXCEPT !.Target.Credentials =
                                      <<credentials>> \o @]
            /\ IF credentials.Username = ""
               THEN /\ err' = ErrMissingHetznerUsername
                    /\ pc' = "return"
               ELSE IF credentials.Password = ""
               THEN /\ err' = ErrMissingHetznerPassword
                    /\ pc' = "return"
               ELSE /\ pc' = "checkAny"
                    /\ UNCHANGED err
       ELSE /\ pc' = "checkAny"
            /\ UNCHANGED <<cfg, err>>
    /\ UNCHANGED <<c, configFile, serverCalls, lastRefresh, exitCode>>

\* if c.IsSet("hetzner.username") && c.IsSet("hetzner.password") { append;
\* validate username, then password }
AppendCredentials ==
    /\ pc = "credentials"
    /\ IF IsSet("hetzner.username") /\ IsSet("hetzner.password")
       THEN LET credentials == FlagCredential IN
            /\ cfg' = [cfg EXCEPT !.Target.Credentials =
                                      Append(@, credentials)]
            /\ IF credentials.Username = ""
               THEN /\ err' = ErrMissingHetznerUsername
                    /\ pc' = "return"
               ELSE IF credentials.Password = ""
               THEN /\ err' = ErrMissingHetznerPassword
                    /\ pc' = "return"
               ELSE /\ pc' = "checkAny"
                    /\ UNCHANGED err
       ELSE /\ pc' = "checkAny"
            /\ UNCHANGED <<cfg, err>>
    /\ UNCHANGED <<c, configFile, serverCalls, lastRefresh, exitCode>>

\* plausible slip: the missing credentials are logged but the action goes on
CheckAnyCredentialsNoReturn ==
    /\ pc = "checkAny"
    /\ pc' = "callServer"
    /\ UNCHANGED <<c, configFile, cfg, err, serverCalls, lastRefresh, exitCode>>

\* plausible slip: the length test is off by one
CheckAnyCredentialsOffByOne ==
    /\ pc = "checkAny"
    /\ IF Len(cfg.Target.Credentials) <= 1
       THEN /\ err' = ErrMissingAnyCredentials
            /\ pc' = "return"
       ELSE /\ pc' = "callServer"
            /\ UNCHANGED err
    /\ UNCHANGED <<c, configFile, cfg, serverCalls, lastRefresh, exitCode>>

\* if len(cfg.Target.Credentials) == 0 { return ErrMissingAnyCredentials }
CheckAnyCredentials ==
    /\ pc = "checkAny"
    /\ IF Len(cfg.Target.Credentials) = 0
       THEN /\ err' = ErrMissingAnyCredentials
            /\ pc' = "return"
       ELSE /\ pc' = "callServer"
            /\ UNCHANGED err
    /\ UNCHANGED <<c, configFile, cfg, serverCalls, lastRefresh, exitCode>>

\* return action.Server(cfg, logger): the polling loop starts
CallServer ==
    /\ pc = "callServer"
    /\ serverCalls' = serverCalls + 1
    /\ pc' = "waiting"
    /\ UNCHANGED <<c, configFile, cfg, err, lastRefresh, exitCode>>

\* action.Server: the refresh interval elapses
Tick ==
    /\ pc = "waiting"
    /\ pc' = "querying"
    /\ UNCHANGED <<c, configFile, cfg, err, serverCalls, lastRefresh, exitCode>>

\* plausible slip: a failed query ends the loop
QueryServersStopOnError ==
    /\ pc = "querying"
    /\ \E ok \in BOOLEAN :
         IF ok
         THEN /\ pc' = "writing"
              /\ UNCHANGED lastRefresh
         ELSE /\ lastRefresh' = "queryFailed"
              /\ pc' = "stopped"
    /\ UNCHANGED <<c, configFile, cfg, err, serverCalls, exitCode>>

\* action.Server: query the server inventory; a failure is logged and the
\* loop waits for the next tick
QueryServers ==
    /\ pc = "querying"
    /\ \E ok \in BOOLEAN :
         IF ok
         THEN /\ pc' = "writing"
              /\ UNCHANGED lastRefresh
         ELSE /\ lastRefresh' = "queryFailed"
              /\ pc' = "waiting"
    /\ UNCHANGED <<c, configFile, cfg, err, serverCalls, exitCode>>

\* action.Server: write the target file; a failure is logged and the loop
\* waits for the next tick
WriteTargets ==
    /\ pc = "writing"
    /\ \E ok \in BOOLEAN :
         lastRefresh' = IF ok THEN "ok" ELSE "writeFailed"
    /\ pc' = "waiting"
    /\ UNCHANGED <<c, configFile, cfg, err, serverCalls, exitCode>>

\* if err := app.Run(os.Args); err != nil { os.Exit(1) }
Exit ==
    /\ pc = "return"
    /\ pc' = "exited"
    /\ exitCode' = IF err # "nil" THEN 1 ELSE 0
    /\ UNCHANGED <<c, configFile, cfg, err, serverCalls, lastRefresh>>

Next ==
    \/ ReadConfig
    \/ CheckOutputFile
    \/ AppendCredentials
    \/ CheckAnyCredentials
    \/ CallServer
    \/ Tick
    \/ QueryServers
    \/ WriteTargets
    \/ Exit

Spec == Init /\ [][Next]_vars

\* the ticker of action.Server keeps firing, and a started query or write
\* completes
FairSpec ==
    /\ Spec
    /\ WF_vars(Tick)
    /\ WF_vars(QueryServers)
    /\ WF_vars(WriteTargets)

\* ------------------------------------------------------- claim vocabulary
\* the credentials the config file merge leaves in cfg.Target.Credentials
ConfigCredentials ==
    IF IsSet("hetzner.config") /\ configFile.readable
    THEN configFile.credentials
    ELSE <<>>

BothFlagsSet == IsSet("hetzner.username") /\ IsSet("hetzner.password")

\* the config read (if any) succeeded and the output.file check passed
ChecksPassed ==
    /\ pc \notin {"readConfig", "checkFile"}
    /\ err \notin {ErrReadConfig, ErrMissingOutputFile}

\* ... and the credential block (lines 136-163) has been executed
PastCredentials == ChecksPassed /\ pc # "credentials"

\* ... and the check for any credentials (lines 165-171) too
PastCheckAny == PastCredentials /\ pc # "checkAny"

MissingErrors ==
    {ErrMissingOutputFile, ErrMissingHetznerUsername,
     ErrMissingHetznerPassword, ErrMissingAnyCredentials}

\* C1: action.Server is invoked at most once, and only when the config file
\* (if hetzner.config was set) was read without error, cfg.Target.File is
\* non-empty and cfg.Target.Credentials holds at least one credential; when
\* the action returns an ErrMissing* error or the readConfig error,
\* action.Server is never invoked.
C1_ServerOnlyWhenValid ==
    /\ serverCalls <= 1
    /\ serverCalls >= 1 =>
          /\ IsSet("hetzner.config") => configFile.readable
          /\ cfg.Target.File # ""
          /\ Len(cfg.Target.Credentials) >= 1
    /\ err \in MissingErrors \cup {ErrReadConfig} => serverCalls = 0

C1_Witness ==
    /\ serverCalls = 1
    /\ IsSet("hetzner.config")
    /\ ~BothFlagsSet

\* C2: if cfg.Target.File is empty after the config merge succeeded, the
\* action returns ErrMissingOutputFile whatever credentials were supplied,
\* and no flag credential has been appended to cfg.Target.Credentials.
C2_EmptyFileIsMissingOutputFile ==
    ( /\ pc \notin {"readConfig", "checkFile"}
      /\ err # ErrReadConfig
      /\ cfg.Target.File = "" )
    => /\ err = ErrMissingOutputFile
       /\ cfg.Target.Credentials = ConfigCredentials
       /\ serverCalls = 0

C2_Witness ==
    /\ pc \in {"return", "exited"}
    /\ err = ErrMissingOutputFile
    /\ BothFlagsSet
    /\ String("hetzner.username") # ""
    /\ String("hetzner.password") # ""
    /\ Len(ConfigCredentials) >= 1

\* C3: if neither the config file nor the username/password flags contribute
\* a credential, and the config read and the output.file check passed, the
\* action returns ErrMissingAnyCredentials; and ErrMissingAnyCredentials is
\* returned only with cfg.Target.Credentials empty.
C3_NoCredentialsIsMissingAny ==
    /\ ( /\ PastCheckAny
         /\ ConfigCredentials = <<>>
         /\ ~BothFlagsSet )
       => err = ErrMissingAnyCredentials
    /\ err = ErrMissingAnyCredentials => cfg.Target.Credentials = <<>>

C3_Witness ==
    /\ pc \in {"return", "exited"}
    /\ err = ErrMissingAnyCredentials
    /\ IsSet("hetzner.password")
    /\ IsSet("hetzner.config")

RefreshFailed ==
    /\ pc = "waiting"
    /\ lastRefresh \in {"queryFailed", "writeFailed"}

\* C5: once action.Server runs, a failed query or write does not stop the
\* loop: after any failed refresh a later refresh attempt (a query of the
\* server inventory) eventually happens.
C5_FailedRefreshIsRetried ==
    /\ [](lastRefresh \in {"queryFailed", "writeFailed"}
            => pc \in {"waiting", "querying", "writing"})
    /\ RefreshFailed ~> (pc = "querying")

C5_Witness ==
    /\ pc = "querying"
    /\ lastRefresh = "writeFailed"
    /\ serverCalls = 1

\* C6: once the credential block has run, cfg.Target.Credentials is the
\* list the config merge produced, unchanged and in order, followed by
\* exactly one credential {default, username flag, password flag} when both
\* flags are set, and exactly that list otherwise.
C6_AppendKeepsConfigCredentials ==
    PastCredentials =>
        cfg.Target.Credentials =
            IF BothFlagsSet
            THEN ConfigCredentials \o
                   << [ Project |-> "default",
                        Username |-> String("hetzner.username"),
                        Password |-> String("hetzner.password") ] >>
            ELSE ConfigCredentials

C6_Witness ==
    /\ PastCredentials
    /\ BothFlagsSet
    /\ Len(ConfigCredentials) = 2
    /\ ConfigCredentials[1] # ConfigCredentials[2]
    /\ Len(cfg.Target.Credentials) = 3

====
